---- MODULE Spec2Model ----
(***************************************************************************)
(* A model of the lobby engine of mazy-kz/meme-game: one lobby of the      *)
(* GameManager (server/src/game/gameManager.ts), its players, its round,   *)
(* its single-slot timer and the startGame calls that are awaiting the     *)
(* meme provider.  One action per public method of GameManager and one per *)
(* timer callback.                                                         *)
(***************************************************************************)
EXTENDS Integers, Sequences, FiniteSets, TLC

(***************************************************************************)
(* Bounds of the exploration.                                              *)
(***************************************************************************)
\* player records created in the lobby (the host included)
MaxJoined == 3
\* startGame calls awaiting fetchMemes at the same time
MaxPending == 2
\* outcomes of shuffle() explored: the rotations by 0..MaxShuffle-1
MaxShuffle == 1
\* outcomes of randomItem() explored: the first MaxRandom items
MaxRandom == 1
\* values of the round seed explored: 0..MaxSeed-1
MaxSeed == 1
\* rounds a game is followed for before the results timer is left pending
MaxRoundsPlayed == 1
\* startGame calls accepted in one behaviour
MaxStarts == 2
\* players connected at the same time
MaxConnected == 2
\* submissions replaced by a later submitMeme of the same player, per round
MaxResubmits == 1
\* round seeds a scoring starts from: 0..MaxScoredSeeds-1
MaxScoredSeeds == 3
\* player records of a lobby whose voting is scored
MaxScored == 4
\* values of random() computed for a scoring; a further draw repeats the first
MaxDraws == 6
\* how far beyond the limits of a setting the numbers a client sends go
MaxExcess == 1
\* positions of a hand the auto-submission picks from: the first MaxPicked
MaxPicked == 2
\* positions of the unused prompts a round's prompt is picked from: the first MaxPrompt
MaxPrompt == 2

(***************************************************************************)
(* Program constants.                                                      *)
(***************************************************************************)
MinRounds == 5
MaxRounds == 20
MinMaxPlayers == 2
MaxMaxPlayers == 7
MinPlayersToStart == 2
ExtraCards == 2
FunCount == 7
UniversityCount == 7
MatureCount == 6

VARIABLES
    players,         \* lobby.players: the records in insertion order, players[i].id = i
    settings,        \* lobby.settings
    hostId,          \* lobby.hostId
    deck,            \* lobby.deck
    usedSituations,  \* lobby.usedSituations
    situationsPool,  \* lobby.situationsPool
    phase,           \* lobby.phase
    round,           \* lobby.round: <<>> when undefined, else <<the round record>>
    timer,           \* this.timers.get(lobbyId): the handler armed, or "none"
    scheduled,       \* the handlers of the timeouts the event loop holds for the lobby
    pending,         \* the startGame calls suspended at `await fetchMemes`
    starts,          \* how many startGame calls were accepted (bounds the exploration)
    resubmits,       \* how many submissions of the round were replaced (bounds the exploration)
    out              \* what the last operation returned and how often it notified

vars == <<players, settings, hostId, deck, usedSituations, situationsPool,
          phase, round, timer, scheduled, pending, starts, resubmits, out>>

\* F(v), with v evaluated once before F is applied.
Eager(v, F(_)) == CHOOSE r \in {F(x) : x \in {v}} : TRUE

Min(a, b) == IF a < b THEN a ELSE b
Max(a, b) == IF a > b THEN a ELSE b

(***************************************************************************)
(* 32-bit arithmetic.  A 32-bit word is the pair <<hi, lo>> of its 16-bit   *)
(* halves, so that no intermediate value leaves the integers of the checker.*)
(***************************************************************************)
Half == 65536

\* x ^ y and x | y on k-bit numbers.
RECURSIVE xorBits(_, _, _)
xorBits(x, y, k) ==
    IF k = 0 THEN 0
    ELSE (((x % 2) + (y % 2)) % 2) + 2 * xorBits(x \div 2, y \div 2, k - 1)

RECURSIVE orBits(_, _, _)
orBits(x, y, k) ==
    IF k = 0 THEN 0
    ELSE (IF (x % 2) + (y % 2) > 0 THEN 1 ELSE 0) + 2 * orBits(x \div 2, y \div 2, k - 1)

xor32(x, y) == <<xorBits(x[1], y[1], 16), xorBits(x[2], y[2], 16)>>

\* x | c for a constant c below 2^16.
or32(x, c) == <<x[1], orBits(x[2], c, 16)>>

\* (x + y) | 0
add32(x, y) == <<(x[1] + y[1] + ((x[2] + y[2]) \div Half)) % Half, (x[2] + y[2]) % Half>>

\* x >>> k for 0 < k < 16
shr32(x, k) ==
    <<x[1] \div (2 ^ k), ((x[1] % (2 ^ k)) * (2 ^ (16 - k))) + (x[2] \div (2 ^ k))>>

\* The product of two 16-bit numbers as a 32-bit word.
mul16(a, b) ==
    LET p1 == a * (b \div 256)
        p0 == a * (b % 256)
        low == ((p1 % 256) * 256) + p0
    IN <<((p1 \div 256) + (low \div Half)) % Half, low % Half>>

\* Math.imul(x, y): the low 32 bits of the product.
imul(x, y) ==
    LET ll == mul16(x[2], y[2])
    IN <<(ll[1] + mul16(x[1], y[2])[2] + mul16(x[2], y[1])[2]) % Half, ll[2]>>

\* 0x6D2B79F5
Increment == <<27947, 31221>>

\* The state `a` of mulberry32(seed) in its n-th call: seed + n * 0x6D2B79F5.
RECURSIVE mulberryState(_, _)
mulberryState(seed, n) ==
    IF n = 0 THEN <<seed \div Half, seed % Half>>
    ELSE add32(mulberryState(seed, n - 1), Increment)

\* The n-th value mulberry32(seed) returns, as the numerator of n / 2^32.
mulberry32(seed, n) ==
    LET t0 == mulberryState(seed, n)
        t1 == imul(xor32(t0, shr32(t0, 15)), or32(t0, 1))
        t2 == xor32(t1, add32(t1, imul(xor32(t1, shr32(t1, 7)), or32(t1, 61))))
    IN xor32(t2, shr32(t2, 14))

\* The lobby the registry holds, and an identifier it does not hold.
TheLobby == 1
UnknownLobby == 2
\* A call that names no player.
NoPlayer == 0

NoCard == 0
NoRanking == <<0>>
PlayerIds == 1..MaxJoined

Themes == {"fun", "university", "18+"}

\* SITUATIONS[theme]: the prompt ids `${theme}-${index}` in order.
SITUATIONS(theme) ==
    LET n == CASE theme = "fun" -> FunCount
               [] theme = "university" -> UniversityCount
               [] theme = "18+" -> MatureCount
    IN [i \in 1..n |-> [theme |-> theme, index |-> i - 1, repeat |-> FALSE]]

\* The settings a client may send (createLobby and updateSettings).
SettingsInputs ==
    { [rounds |-> 3, theme |-> "fun", maxPlayers |-> 1],
      [rounds |-> 5, theme |-> "fun", maxPlayers |-> 3] }

\* sanitizeSettings of the HTTP server (index.ts), applied to the body of
\* POST /api/lobbies only: a theme that is not enumerated becomes 'fun'.  The
\* numbers explored are integers, which Number.isFinite lets through.
indexSanitizeSettings(s) ==
    [rounds |-> s.rounds,
     theme |-> IF s.theme \in Themes THEN s.theme ELSE "fun",
     maxPlayers |-> s.maxPlayers]

\* A faulty sanitizeSettings that stores the numbers as they are sent.
sanitizeSettingsUnclamped(s) == s

\* sanitizeSettings of GameManager; Math.floor leaves the integers explored alone.
sanitizeSettings(s) ==
    [rounds |-> Min(MaxRounds, Max(MinRounds, s.rounds)),
     theme |-> s.theme,
     maxPlayers |-> Min(MaxMaxPlayers, Max(MinMaxPlayers, s.maxPlayers))]

\* shuffle(items): the outcomes explored are the rotations of items.
Rotate(s, r) ==
    IF Len(s) = 0 THEN s
    ELSE [i \in 1..Len(s) |-> s[((i - 1 + r) % Len(s)) + 1]]

ShuffleChoices == 0..(MaxShuffle - 1)

shuffle(s, r) == Rotate(s, r)

\* randomItem(items): the item at the chosen position, for a choice k in RandomChoices.
RandomChoices == 1..MaxRandom

randomItem(items, k) == items[Min(k, Len(items))]

\* A faulty player literal that makes every new player a host.
NewPlayerAsHost(id, spec) ==
    [id |-> id, isHost |-> TRUE, connected |-> FALSE, spectator |-> spec,
     socketId |-> 0, score |-> 0, hand |-> <<>>,
     submittedMemeId |-> NoCard, voteRanking |-> NoRanking]

NewPlayer(id, spec) ==
    [id |-> id, isHost |-> FALSE, connected |-> FALSE, spectator |-> spec,
     socketId |-> 0, score |-> 0, hand |-> <<>>,
     submittedMemeId |-> NoCard, voteRanking |-> NoRanking]

\* [...lobby.players.values()].filter((p) => !p.spectator)
Participants(ps) == SelectSeq(ps, LAMBDA p : ~p.spectator)

Known(ps, pid) == pid \in 1..Len(ps)

\* What an operation leaves behind: the notifications it sent, what it returned
\* (or the error it threw), and the player record joinLobby returned.
Out(op, n, r) == [op |-> op, notified |-> n, result |-> r, player |-> 0]
\* What a call that returns early leaves: no notification and no result.
Refused == Out("refused", 0, "none")


(***************************************************************************)
(* Helpers of GameManager.                                                 *)
(***************************************************************************)
HasRound == round # <<>>
\* The rounds explored: the operations of a round numbered above MaxRoundsPlayed
\* are not followed.
RoundInScope == IF round = <<>> THEN TRUE ELSE round[1].roundNumber <= MaxRoundsPlayed

\* lobby.round.submissions: a Map, kept as its entries in insertion order.
SubmissionKeys(subs) == [i \in 1..Len(subs) |-> subs[i].pid]

HasSubmission(subs, pid) == \E i \in 1..Len(subs) : subs[i].pid = pid

\* Map.set: a known key keeps its place and takes the new value.
SetSubmission(subs, pid, card) ==
    IF HasSubmission(subs, pid)
    THEN [i \in 1..Len(subs) |->
            IF subs[i].pid = pid THEN [pid |-> pid, card |-> card] ELSE subs[i]]
    ELSE Append(subs, [pid |-> pid, card |-> card])

\* A faulty filter that leaves the card in the hand.
RemoveCardKept(hand, card) == hand

\* player.hand.filter((c) => c.id !== card.id)
RemoveCard(hand, card) == SelectSeq(hand, LAMBDA c : c # card)

InHand(hand, card) == \E i \in 1..Len(hand) : hand[i] = card

ensureHost(ps, hid) ==
    IF Known(ps, hid) /\ ~ps[hid].spectator
    THEN [players |-> [ps EXCEPT ![hid].isHost = TRUE], hostId |-> hid, notified |-> 0]
    ELSE LET conn == SelectSeq(ps, LAMBDA p : ~p.spectator /\ p.connected)
             any == Participants(ps)
             next == IF Len(conn) > 0 THEN conn[1].id
                     ELSE IF Len(any) > 0 THEN any[1].id ELSE 0
         IN IF next # 0
            THEN [players |-> [i \in 1..Len(ps) |-> [ps[i] EXCEPT !.isHost = (i = next)]],
                  hostId |-> next, notified |-> 1]
            ELSE [players |-> ps, hostId |-> hid, notified |-> 0]

\* A faulty allSubmitted that never reports the selection complete.
allSubmittedNever(ps, rnd) == FALSE

allSubmitted(ps, rnd) ==
    /\ rnd # <<>>
    /\ \A i \in 1..Len(ps) :
          ~ps[i].spectator => HasSubmission(rnd[1].submissions, ps[i].id)

\* A faulty allVotesIn that never reports the voting complete.
allVotesInNever(ps, rnd) == FALSE

allVotesIn(ps, rnd) ==
    /\ rnd # <<>>
    /\ \/ Len(Participants(ps)) <= 1
       \/ \A i \in 1..Len(ps) : ~ps[i].spectator => ps[i].id \in DOMAIN rnd[1].votes

\* A faulty pickSituation that picks among all prompts of the pool.
pickSituationFromPool(pool, used, theme, k) ==
    LET choice == randomItem(pool, k)
    IN [choice |-> choice, pool |-> pool, used |-> used \cup {choice}]

\* pickSituation: the prompt chosen for choice k, with the pool and the used set after it.
pickSituation(pool, used, theme, k) ==
    LET pool1 == IF Len(pool) = 0
                 THEN [i \in 1..Len(SITUATIONS(theme)) |->
                         [SITUATIONS(theme)[i] EXCEPT !.repeat = TRUE]]
                 ELSE pool
        used1 == IF Len(pool) = 0 THEN {} ELSE used
        available == SelectSeq(pool1, LAMBDA s : s \notin used1)
        choice == IF Len(available) > 0 THEN randomItem(available, k)
                  ELSE randomItem(pool1, k)
    IN [choice |-> choice, pool |-> pool1, used |-> used1 \cup {choice}]

\* The round record beginRound builds.
NewRound(number, situation, seed) ==
    [roundNumber |-> number, situation |-> situation, submissions |-> <<>>,
     submissionSlots |-> <<>>, votes |-> <<>>, phase |-> "selection", seed |-> seed,
     leaderboard |-> <<>>]

\* A faulty beginRound that gives the new round the number of the one before.
beginRoundSameNumber(ps, rnd, pool, used, theme, k, seed) ==
    LET roundNumber == IF rnd = <<>> THEN 1 ELSE rnd[1].roundNumber
        pick == pickSituation(pool, used, theme, k)
    IN [round |-> <<NewRound(roundNumber, pick.choice, seed)>>,
        players |-> [i \in 1..Len(ps) |->
                       [ps[i] EXCEPT !.submittedMemeId = NoCard, !.voteRanking = NoRanking]],
        pool |-> pick.pool,
        used |-> pick.used]

\* beginRound: the lobby fields after it, for prompt choice k and the seed drawn.
beginRound(ps, rnd, pool, used, theme, k, seed) ==
    LET roundNumber == (IF rnd = <<>> THEN 0 ELSE rnd[1].roundNumber) + 1
        pick == pickSituation(pool, used, theme, k)
    IN [round |-> <<NewRound(roundNumber, pick.choice, seed)>>,
        players |-> [i \in 1..Len(ps) |->
                       [ps[i] EXCEPT !.submittedMemeId = NoCard, !.voteRanking = NoRanking]],
        pool |-> pick.pool,
        used |-> pick.used]

\* ensureAutoSubmissions, one participant after the other; pick[i] is the
\* choice of randomItem for players[i].
RECURSIVE autoSubmitFrom(_, _, _, _)
autoSubmitFrom(i, ps, subs, pick) ==
    IF i > Len(ps) THEN [players |-> ps, submissions |-> subs]
    ELSE IF ps[i].spectator \/ HasSubmission(subs, ps[i].id) \/ Len(ps[i].hand) = 0
         THEN autoSubmitFrom(i + 1, ps, subs, pick)
         ELSE LET card == randomItem(ps[i].hand, pick[i])
              IN autoSubmitFrom(i + 1,
                     [ps EXCEPT ![i].submittedMemeId = card,
                                ![i].hand = RemoveCard(ps[i].hand, card)],
                     SetSubmission(subs, ps[i].id, card), pick)

\* A faulty ensureAutoSubmissions that submits for nobody.
ensureAutoSubmissionsSkipped(ps, subs, pick) == [players |-> ps, submissions |-> subs]

ensureAutoSubmissions(ps, subs, pick) == autoSubmitFrom(1, ps, subs, pick)

\* ensureAutoVotes; rot[i] is the outcome of shuffle for players[i].
RECURSIVE autoVoteFrom(_, _, _, _, _)
autoVoteFrom(i, ps, subs, votes, rot) ==
    IF i > Len(ps) THEN [players |-> ps, votes |-> votes]
    ELSE IF ps[i].spectator \/ ps[i].id \in DOMAIN votes
         THEN autoVoteFrom(i + 1, ps, subs, votes, rot)
         ELSE LET options == SelectSeq(SubmissionKeys(subs), LAMBDA id : id # ps[i].id)
                  ranking == shuffle(options, rot[i])
              IN autoVoteFrom(i + 1, [ps EXCEPT ![i].voteRanking = ranking], subs,
                              (ps[i].id :> ranking) @@ votes, rot)

\* A faulty ensureAutoVotes that votes for the spectators too.
RECURSIVE autoVoteForAllFrom(_, _, _, _, _)
autoVoteForAllFrom(i, ps, subs, votes, rot) ==
    IF i > Len(ps) THEN [players |-> ps, votes |-> votes]
    ELSE IF ps[i].id \in DOMAIN votes
         THEN autoVoteForAllFrom(i + 1, ps, subs, votes, rot)
         ELSE LET options == SelectSeq(SubmissionKeys(subs), LAMBDA id : id # ps[i].id)
                  ranking == shuffle(options, rot[i])
              IN autoVoteForAllFrom(i + 1, [ps EXCEPT ![i].voteRanking = ranking], subs,
                                    (ps[i].id :> ranking) @@ votes, rot)

ensureAutoVotesForAll(ps, subs, votes, rot) == autoVoteForAllFrom(1, ps, subs, votes, rot)

ensureAutoVotes(ps, subs, votes, rot) == autoVoteFrom(1, ps, subs, votes, rot)


RECURSIVE SumSeq(_)
SumSeq(s) == IF Len(s) = 0 THEN 0 ELSE Head(s) + SumSeq(Tail(s))

RECURSIVE SetToSeq(_)
SetToSeq(S) == IF S = {} THEN <<>>
               ELSE LET x == CHOOSE y \in S : \A z \in S : y <= z
                    IN <<x>> \o SetToSeq(S \ {x})

\* Math.max(1, participants.length - 1)
optionsPerVote(ps) == Max(1, Len(Participants(ps)) - 1)

\* A faulty award that gives the first place one point less than optionsPerVote.
RankingPointsFromZero(ranking, pid, perVote) ==
    SumSeq([i \in 1..Len(ranking) |->
              IF ranking[i] = pid THEN perVote - i ELSE 0])

\* The points one ranking gives to pid: perVote - index at each index that names pid.
RankingPoints(ranking, pid, perVote) ==
    SumSeq([i \in 1..Len(ranking) |->
              IF ranking[i] = pid THEN perVote - (i - 1) ELSE 0])

\* scoreboard.get(pid).points once every recorded ranking is counted.
BordaPoints(ps, votes, pid) ==
    LET voters == SetToSeq(DOMAIN votes)
    IN SumSeq([j \in 1..Len(voters) |->
                 RankingPoints(votes[voters[j]], pid, optionsPerVote(ps))])

\* calculateScores: the players after the scores are merged and the rankings copied.
calculateScores(ps, votes) ==
    [i \in 1..Len(ps) |->
       LET ranked == IF ps[i].id \in DOMAIN votes
                     THEN [ps[i] EXCEPT !.voteRanking = votes[ps[i].id]]
                     ELSE ps[i]
       IN IF ps[i].spectator THEN ranked
          ELSE [ranked EXCEPT !.score = @ + BordaPoints(ps, votes, ps[i].id)]]

\* The entry of scoreboard for pid once every recorded ranking is counted.
scoreboardEntry(ps, votes, pid) ==
    LET countAt(index) ==
            Cardinality({v \in DOMAIN votes :
                            Len(votes[v]) > index /\ votes[v][index + 1] = pid})
    IN [playerId |-> pid,
        points |-> BordaPoints(ps, votes, pid),
        firstPlaceVotes |-> countAt(0),
        secondPlaceVotes |-> countAt(1),
        placements |-> [i \in 1..optionsPerVote(ps) |-> countAt(i - 1)]]

\* A faulty comparator that looks at the points only.
compareEntriesByPoints(a, b, coins, n) ==
    IF b.points # a.points THEN [negative |-> b.points < a.points, n |-> n]
    ELSE [negative |-> coins[(n % Len(coins)) + 1], n |-> n + 1]

\* The comparator of the sort: whether its result is negative (a goes before b),
\* and how many values of random() are drawn after it.  coins[i] tells whether
\* the i-th value of random() is below 0.5; the streams explored repeat after
\* Len(coins) values.
compareEntries(a, b, coins, n) ==
    IF b.points # a.points THEN [negative |-> b.points < a.points, n |-> n]
    ELSE IF b.firstPlaceVotes # a.firstPlaceVotes
         THEN [negative |-> b.firstPlaceVotes < a.firstPlaceVotes, n |-> n]
         ELSE IF b.secondPlaceVotes # a.secondPlaceVotes
              THEN [negative |-> b.secondPlaceVotes < a.secondPlaceVotes, n |-> n]
              ELSE [negative |-> coins[(n % Len(coins)) + 1], n |-> n + 1]

Reverse(s) == [i \in 1..Len(s) |-> s[Len(s) + 1 - i]]

\* Array.prototype.sort on a short array: the run at the head of the array is
\* found (and reversed if it descends), then the other elements are placed by
\* binary insertion.
RECURSIVE runFrom(_, _, _, _, _, _)
runFrom(arr, idx, isDescending, runLength, coins, n) ==
    IF idx > Len(arr) THEN [run |-> runLength, n |-> n]
    ELSE Eager(compareEntries(arr[idx], arr[idx - 1], coins, n),
               LAMBDA order :
                   IF isDescending # order.negative
                   THEN [run |-> runLength, n |-> order.n]
                   ELSE runFrom(arr, idx + 1, isDescending, runLength + 1, coins,
                                order.n))

countAndMakeRun(arr, coins) ==
    Eager(compareEntries(arr[2], arr[1], coins, 0),
          LAMBDA order :
              Eager(runFrom(arr, 3, order.negative, 2, coins, order.n),
                    LAMBDA counted :
                        [arr |-> IF order.negative
                                 THEN Reverse(SubSeq(arr, 1, counted.run))
                                          \o SubSeq(arr, counted.run + 1, Len(arr))
                                 ELSE arr,
                         run |-> counted.run, n |-> counted.n]))

\* The place of pivot among arr[left+1..right], by bisection.
RECURSIVE binarySearch(_, _, _, _, _, _)
binarySearch(arr, pivot, left, right, coins, n) ==
    IF left >= right THEN [left |-> left, n |-> n]
    ELSE LET mid == left + ((right - left) \div 2)
         IN Eager(compareEntries(pivot, arr[mid + 1], coins, n),
                  LAMBDA order :
                      IF order.negative
                      THEN binarySearch(arr, pivot, left, mid, coins, order.n)
                      ELSE binarySearch(arr, pivot, mid + 1, right, coins, order.n))

RECURSIVE binaryInsertionSort(_, _, _, _)
binaryInsertionSort(arr, start, coins, n) ==
    IF start >= Len(arr) THEN arr
    ELSE Eager(binarySearch(arr, arr[start + 1], 0, start, coins, n),
               LAMBDA found :
                   Eager(SubSeq(arr, 1, found.left) \o <<arr[start + 1]>>
                             \o SubSeq(arr, found.left + 1, start)
                             \o SubSeq(arr, start + 2, Len(arr)),
                         LAMBDA placed :
                             binaryInsertionSort(placed, start + 1, coins, found.n)))

sortEntries(arr, coins) ==
    IF Len(arr) < 2 THEN arr
    ELSE Eager(countAndMakeRun(arr, coins),
               LAMBDA made : binaryInsertionSort(made.arr, made.run, coins, made.n))

\* calculateScores: the leaderboard it returns, one entry per participant.
leaderboard(ps, votes, coins) ==
    LET participants == Participants(ps)
    IN Eager([i \in 1..Len(participants) |->
                scoreboardEntry(ps, votes, participants[i].id)],
             LAMBDA entries : sortEntries(entries, coins))

\* endSelection past its guard: pick and r are the outcomes of randomItem and shuffle.
endSelection(ps, rnd, pick, r) ==
    Eager(ensureAutoSubmissions(ps, rnd[1].submissions, pick),
          LAMBDA auto :
              LET shuffled == shuffle(auto.submissions, r)
                  slots == [pid \in {shuffled[i].pid : i \in 1..Len(shuffled)} |->
                              CHOOSE i \in 1..Len(shuffled) : shuffled[i].pid = pid]
              IN [players |-> auto.players,
                  round |-> <<[rnd[1] EXCEPT !.submissions = auto.submissions,
                                             !.submissionSlots = slots,
                                             !.phase = "voting"]>>])

\* endVoting past its guard: rot are the outcomes of shuffle, coins those of random().
endVoting(ps, rnd, rot, coins) ==
    Eager(ensureAutoVotes(ps, rnd[1].submissions, rnd[1].votes, rot),
          LAMBDA auto :
              [players |-> calculateScores(auto.players, auto.votes),
               round |-> <<[rnd[1] EXCEPT
                              !.votes = auto.votes,
                              !.leaderboard = leaderboard(auto.players, auto.votes, coins),
                              !.phase = "roundResults"]>>])

\* MockMemeProvider.fetchMemes(count): count cards with the ids 1..count.
fetchMemes(count) == [c \in 1..count |-> c]

\* The lengths of the provider's answer explored: all the cards asked for, or half of them.
FetchOutcomes(count) == {count, count \div 2}

\* Math.ceil(players.length * cardsPerPlayer * 1.2)
DesiredCards(n, cardsPerPlayer) == (n * cardsPerPlayer * 12 + 9) \div 10

\* The inner loop of startGame: up to count cards popped from the deck's tail.
RECURSIVE popCards(_, _, _)
popCards(hand, dk, count) ==
    IF count = 0 THEN [hand |-> hand, deck |-> dk]
    ELSE IF Len(dk) = 0 THEN popCards(hand, dk, count - 1)
         ELSE popCards(Append(hand, dk[Len(dk)]), SubSeq(dk, 1, Len(dk) - 1), count - 1)

\* The outer loop of startGame over the players captured before the await:
\* the non-spectators among the first `joined` records.
RECURSIVE dealFrom(_, _, _, _, _)
dealFrom(i, ps, dk, joined, cardsPerPlayer) ==
    IF i > joined THEN [players |-> ps, deck |-> dk]
    ELSE IF ps[i].spectator THEN dealFrom(i + 1, ps, dk, joined, cardsPerPlayer)
         ELSE LET got == popCards(<<>>, dk, cardsPerPlayer)
              IN dealFrom(i + 1,
                     [ps EXCEPT ![i].score = 0, ![i].hand = got.hand,
                                ![i].submittedMemeId = NoCard,
                                ![i].voteRanking = NoRanking],
                     got.deck, joined, cardsPerPlayer)

\* clearTimer: the armed timeout is cancelled and the slot emptied.
clearTimer(tm, sch) == [timer |-> "none", scheduled |-> sch \ {tm}]

\* A faulty setTimer that arms the new timeout without cancelling the armed one.
setTimerKeeping(tm, sch, handler) ==
    [timer |-> handler, scheduled |-> sch \cup {handler}]

\* A faulty setTimer that cancels the armed timeout and arms none.
setTimerUnarmed(tm, sch, handler) == clearTimer(tm, sch)

\* setTimer: clearTimer, then the new timeout is scheduled and put in the slot.
setTimer(tm, sch, handler) ==
    LET cleared == clearTimer(tm, sch)
    IN [timer |-> handler, scheduled |-> cleared.scheduled \cup {handler}]

\* The wrapper setTimer schedules, as the timeout of handler fires: the slot is
\* emptied before the handler is called.
fireTimer(tm, sch, handler) == [timer |-> "none", scheduled |-> sch \ {handler}]

\* A faulty test of finishRound that plays one round more than the settings ask.
finishRoundIsLastStrict(rnd, s) == rnd[1].roundNumber > s.rounds

\* finishRound: the round that ends is the last one of the game.
finishRoundIsLast(rnd, s) == rnd[1].roundNumber >= s.rounds

RemoveAt(s, i) == SubSeq(s, 1, i - 1) \o SubSeq(s, i + 1, Len(s))

Seeds == 0..(MaxSeed - 1)


(***************************************************************************)
(* The state after createLobby(settings).                                  *)
(***************************************************************************)
Init ==
    \E s \in SettingsInputs :
        /\ settings = sanitizeSettings(s)
        /\ players = <<[NewPlayer(1, FALSE) EXCEPT !.isHost = TRUE]>>
        /\ hostId = 1
        /\ deck = <<>>
        /\ usedSituations = {}
        /\ situationsPool = SITUATIONS(sanitizeSettings(s).theme)
        /\ phase = "lobby"
        /\ round = <<>>
        /\ timer = "none"
        /\ scheduled = {}
        /\ pending = <<>>
        /\ starts = 0
        /\ resubmits = 0
        /\ out = Out("create", 0, "none")

\* The lobby fields an operation that returns early leaves alone.
LobbyUnchanged ==
    UNCHANGED <<players, settings, hostId, deck, usedSituations, situationsPool,
                phase, round, timer, scheduled, pending, starts, resubmits>>

(***************************************************************************)
(* The public methods of GameManager.                                      *)
(***************************************************************************)
\* The notes joinLobby returns in `error`.
LobbyNotFound == "Lobby not found"
LobbyIsFull == "Lobby is full, joined as spectator."

\* What joinLobby returns: the player record (by its id) and the note.
JoinOut(n, pid, note) == [Out("joinLobby", n, note) EXCEPT !.player = pid]

\* A faulty lookup of joinLobby that finds no player of the lobby.
joinCreatesAlways(ps, pid) == TRUE

\* `if (!player)`: the call names no player of the lobby.
joinCreates(ps, pid) == ~Known(ps, pid)

\* A faulty shouldSpectate that makes spectators on request only.
shouldSpectateOnRequest(ps, ph, s, requestedSpectator) == requestedSpectator

shouldSpectate(ps, ph, s, requestedSpectator) ==
    \/ requestedSpectator
    \/ ph # "lobby" /\ Len(Participants(ps)) >= s.maxPlayers

\* joinLobby(lobbyId, {playerId, spectator}); pid = 0 is a call without playerId.
\* The new player's id is its position in lobby.players.
joinLobby(lid, pid, requestedSpectator) ==
    IF lid # TheLobby
    THEN /\ out' = JoinOut(0, NoPlayer, LobbyNotFound)
         /\ LobbyUnchanged
    ELSE IF ~joinCreates(players, pid)
    THEN /\ out' = JoinOut(0, pid, "none")
         /\ LobbyUnchanged
    ELSE /\ Len(players) < MaxJoined
         /\ LET spectates == shouldSpectate(players, phase, settings, requestedSpectator)
                ps1 == Append(players, NewPlayer(Len(players) + 1, spectates))
                eh == IF spectates
                      THEN [players |-> ps1, hostId |-> hostId, notified |-> 0]
                      ELSE ensureHost(ps1, hostId)
            IN /\ players' = eh.players
               /\ hostId' = eh.hostId
               /\ out' = JoinOut(eh.notified, Len(players) + 1,
                                 IF spectates /\ ~requestedSpectator
                                 THEN LobbyIsFull ELSE "none")
         /\ UNCHANGED <<settings, deck, usedSituations, situationsPool, phase,
                        round, timer, scheduled, pending, starts, resubmits>>

markPlayerConnected(lid, pid, socketId) ==
    IF lid # TheLobby \/ ~Known(players, pid)
    THEN /\ out' = Refused
         /\ LobbyUnchanged
    ELSE /\ Len(SelectSeq(players, LAMBDA p : p.connected /\ p.id # pid)) < MaxConnected
         /\ players' = [players EXCEPT ![pid].connected = TRUE,
                                       ![pid].socketId = socketId]
         /\ out' = Out("markPlayerConnected", 1, "none")
         /\ UNCHANGED <<settings, hostId, deck, usedSituations, situationsPool,
                        phase, round, timer, scheduled, pending, starts, resubmits>>

\* A faulty search of markPlayerDisconnected that finds the connected players
\* whatever their socket.
findAnySocket(ps, socketId) == SelectSeq(ps, LAMBDA p : p.connected)

\* [...lobby.players.values()].find((p) => p.socketId === socketId): the players
\* the search runs through, the first being the one found.
findBySocket(ps, socketId) == SelectSeq(ps, LAMBDA p : p.socketId = socketId)

\* What markPlayerDisconnected leaves when it finds no player: undefined is
\* returned and nothing notified.
NobodyBound == Out("markPlayerDisconnected", 0, "undefined")

\* markPlayerDisconnected, as the handlers of 'player:leave' and 'disconnect'
\* call it with the id of their socket.
markPlayerDisconnected(socketId) ==
    LET bound == findBySocket(players, socketId)
    IN IF Len(bound) = 0
       THEN /\ out' = NobodyBound
            /\ LobbyUnchanged
       ELSE LET pid == bound[1].id
                ps1 == [players EXCEPT ![pid].connected = FALSE, ![pid].socketId = 0]
                eh == IF players[pid].isHost THEN ensureHost(ps1, hostId)
                      ELSE [players |-> ps1, hostId |-> hostId, notified |-> 0]
            IN /\ players' = eh.players
               /\ hostId' = eh.hostId
               /\ out' = Out("markPlayerDisconnected", eh.notified + 1, "none")
               /\ UNCHANGED <<settings, deck, usedSituations, situationsPool,
                              phase, round, timer, scheduled, pending, starts, resubmits>>

\* A faulty guard of updateSettings that lets every player of the lobby in.
updateSettingsRefusesStrangers(lid, pid) == lid # TheLobby \/ ~Known(players, pid)

\* The early return of updateSettings: no such lobby, or the caller is not the host.
updateSettingsRefuses(lid, pid) == lid # TheLobby \/ hostId # pid

\* `[...SITUATIONS[theme]]` spreads undefined when theme is no key of SITUATIONS.
TypeError == "TypeError: undefined is not iterable"

\* updateSettings stores the sanitized settings first; the spread of the pool
\* throws for a theme SITUATIONS does not have, before the pool is replaced and
\* before notify.
updateSettings(lid, pid, s) ==
    IF updateSettingsRefuses(lid, pid)
    THEN /\ out' = Refused
         /\ LobbyUnchanged
    ELSE IF sanitizeSettings(s).theme \in Themes
    THEN /\ settings' = sanitizeSettings(s)
         /\ situationsPool' = SITUATIONS(sanitizeSettings(s).theme)
         /\ out' = Out("updateSettings", 1, "none")
         /\ UNCHANGED <<players, hostId, deck, usedSituations, phase, round,
                        timer, scheduled, pending, starts, resubmits>>
    ELSE /\ settings' = sanitizeSettings(s)
         /\ out' = Out("updateSettings", 0, TypeError)
         /\ UNCHANGED <<players, hostId, deck, usedSituations, situationsPool, phase,
                        round, timer, scheduled, pending, starts, resubmits>>

\* A faulty guard of startGame that lets a lobby of any size start.
startGameRefusesUnknownLobby(lid) == lid # TheLobby

\* The early returns of startGame: no such lobby, or fewer than two participants.
startGameRefuses(lid) ==
    \/ lid # TheLobby
    \/ Len(Participants(players)) < MinPlayersToStart

\* startGame up to `await this.memeProvider.fetchMemes(...)`, or to `return false`.
startGame(lid) ==
    IF startGameRefuses(lid)
    THEN /\ out' = Out("refused", 0, "false")
         /\ LobbyUnchanged
    ELSE IF settings.theme \notin Themes
    THEN \* the spread of SITUATIONS[theme] throws after the phase was set
         /\ phase' = "selection"
         /\ usedSituations' = {}
         /\ out' = Out("startGame", 0, TypeError)
         /\ UNCHANGED <<players, settings, hostId, deck, situationsPool, round,
                        timer, scheduled, pending, starts, resubmits>>
    ELSE /\ Len(pending) < MaxPending
         /\ starts < MaxStarts
         /\ starts' = starts + 1
         /\ phase' = "selection"
         /\ usedSituations' = {}
         /\ situationsPool' = SITUATIONS(settings.theme)
         /\ deck' = <<>>
         /\ round' = <<>>
         /\ resubmits' = 0
         /\ pending' = Append(pending,
                [joined |-> Len(players),
                 cardsPerPlayer |-> settings.rounds + ExtraCards,
                 desiredCards |-> DesiredCards(Len(Participants(players)),
                                               settings.rounds + ExtraCards)])
         /\ out' = Out("startGame", 0, "none")
         /\ UNCHANGED <<players, settings, hostId, timer, scheduled>>

\* startGame from the answer of fetchMemes to `return true`: call i resumes with
\* `got` cards, shuffled by r; k and seed are the draws of beginRound.
startGameResume(i, got, r, k, seed) ==
    /\ i \in 1..Len(pending)
    /\ got \in FetchOutcomes(pending[i].desiredCards)
    /\ LET call == pending[i]
           dealt == dealFrom(1, players, shuffle(fetchMemes(got), r), call.joined,
                             call.cardsPerPlayer)
           br == beginRound(dealt.players, round, situationsPool, usedSituations,
                            settings.theme, k, seed)
       IN /\ players' = br.players
          /\ deck' = dealt.deck
          /\ round' = br.round
          /\ situationsPool' = br.pool
          /\ usedSituations' = br.used
    /\ phase' = "selection"
    /\ LET st == setTimer(timer, scheduled, "endSelection")
       IN timer' = st.timer /\ scheduled' = st.scheduled
    /\ pending' = RemoveAt(pending, i)
    /\ resubmits' = 0
    /\ out' = Out("startGame", 1, "true")
    /\ UNCHANGED <<settings, hostId, starts>>

NoAutoPick == [i \in 1..MaxJoined |-> 1]
NoRotation == [i \in 1..MaxJoined |-> 0]

\* A faulty guard of submitMeme that does not look at the phase.
submitMemeRefusesInNoPhase(lid, pid, memeId) ==
    \/ lid # TheLobby \/ ~HasRound
    \/ ~Known(players, pid)
    \/ players[pid].spectator
    \/ ~InHand(players[pid].hand, memeId)

\* The early returns of submitMeme.
submitMemeRefuses(lid, pid, memeId) ==
    \/ lid # TheLobby \/ phase # "selection" \/ ~HasRound
    \/ ~Known(players, pid)
    \/ players[pid].spectator
    \/ ~InHand(players[pid].hand, memeId)

\* submitMeme; r is the outcome of the shuffle of endSelection, when it is reached.
submitMeme(lid, pid, memeId, r) ==
    IF submitMemeRefuses(lid, pid, memeId)
    THEN /\ out' = Out("submitMeme", 0, "none")
         /\ LobbyUnchanged
    ELSE LET replaces == HasSubmission(round[1].submissions, pid)
             ps1 == [players EXCEPT ![pid].submittedMemeId = memeId,
                                    ![pid].hand = RemoveCard(players[pid].hand, memeId)]
             rnd1 == <<[round[1] EXCEPT
                          !.submissions = SetSubmission(@, pid, memeId)]>>
         IN /\ replaces => resubmits < MaxResubmits
            /\ resubmits' = IF replaces THEN resubmits + 1 ELSE resubmits
            /\ IF allSubmitted(ps1, rnd1)
               THEN LET es == endSelection(ps1, rnd1, NoAutoPick, r)
                    IN /\ players' = es.players
                       /\ round' = es.round
                       /\ phase' = "voting"
                       /\ LET ct == clearTimer(timer, scheduled)
                              st == setTimer(ct.timer, ct.scheduled, "endVoting")
                          IN timer' = st.timer /\ scheduled' = st.scheduled
                       /\ out' = Out("submitMeme", 1, "none")
                       /\ UNCHANGED <<settings, hostId, deck, usedSituations,
                                      situationsPool, pending, starts>>
               ELSE /\ players' = ps1
                    /\ round' = rnd1
                    /\ out' = Out("submitMeme", 1, "none")
                    /\ UNCHANGED <<settings, hostId, deck, usedSituations,
                                   situationsPool, phase, timer, scheduled, pending, starts>>

\* A faulty check of payload.ranking that compares the lengths only.
rankingAcceptedByLength(ranking, validTargets) == Len(ranking) = Len(validTargets)

\* The checks submitVote makes of payload.ranking against validTargets.
rankingAccepted(ranking, validTargets) ==
    LET unique == {ranking[i] : i \in 1..Len(ranking)}
    IN /\ Len(ranking) = Len(validTargets)
       /\ Cardinality(unique) = Len(validTargets)
       /\ \A i \in 1..Len(ranking) :
             \E j \in 1..Len(validTargets) : validTargets[j] = ranking[i]

submitVote(lid, pid, ranking, coins) ==
    LET validTargets == IF HasRound
                        THEN SelectSeq(SubmissionKeys(round[1].submissions),
                                       LAMBDA id : id # pid)
                        ELSE <<>>
    IN IF \/ lid # TheLobby \/ phase # "voting" \/ ~HasRound
          \/ ~Known(players, pid)
          \/ players[pid].spectator
          \/ Len(validTargets) = 0
          \/ ~rankingAccepted(ranking, validTargets)
       THEN /\ out' = Refused
            /\ LobbyUnchanged
       ELSE LET ps1 == [players EXCEPT ![pid].voteRanking = ranking]
                rnd1 == <<[round[1] EXCEPT !.votes = (pid :> ranking) @@ @]>>
            IN IF allVotesIn(ps1, rnd1)
               THEN LET ev == endVoting(ps1, rnd1, NoRotation, coins)
                        ct == clearTimer(timer, scheduled)
                        st == setTimer(ct.timer, ct.scheduled, "finishRound")
                    IN /\ players' = ev.players
                       /\ round' = ev.round
                       /\ phase' = "roundResults"
                       /\ timer' = st.timer
                       /\ scheduled' = st.scheduled
                       /\ out' = Out("submitVote", 1, "none")
                       /\ UNCHANGED <<settings, hostId, deck, usedSituations,
                                      situationsPool, pending, starts, resubmits>>
               ELSE /\ players' = ps1
                    /\ round' = rnd1
                    /\ out' = Out("submitVote", 1, "none")
                    /\ UNCHANGED <<settings, hostId, deck, usedSituations, situationsPool,
                                   phase, timer, scheduled, pending, starts, resubmits>>

(***************************************************************************)
(* The timer callbacks: setTimer's wrapper deletes the timer, then calls   *)
(* the handler.                                                            *)
(***************************************************************************)
TimerEndSelection(pick, r) ==
    /\ "endSelection" \in scheduled
    /\ LET fired == fireTimer(timer, scheduled, "endSelection")
       IN IF ~HasRound
          THEN /\ timer' = fired.timer
               /\ scheduled' = fired.scheduled
               /\ out' = Refused
               /\ UNCHANGED <<players, settings, hostId, deck, usedSituations,
                              situationsPool, phase, round, pending, starts, resubmits>>
          ELSE LET es == endSelection(players, round, pick, r)
                   ct == clearTimer(fired.timer, fired.scheduled)
                   st == setTimer(ct.timer, ct.scheduled, "endVoting")
               IN /\ players' = es.players
                  /\ round' = es.round
                  /\ phase' = "voting"
                  /\ timer' = st.timer
                  /\ scheduled' = st.scheduled
                  /\ out' = Out("endSelection", 1, "none")
                  /\ UNCHANGED <<settings, hostId, deck, usedSituations,
                                 situationsPool, pending, starts, resubmits>>

TimerEndVoting(rot, coins) ==
    /\ "endVoting" \in scheduled
    /\ LET fired == fireTimer(timer, scheduled, "endVoting")
       IN IF ~HasRound
          THEN /\ timer' = fired.timer
               /\ scheduled' = fired.scheduled
               /\ out' = Refused
               /\ UNCHANGED <<players, settings, hostId, deck, usedSituations,
                              situationsPool, phase, round, pending, starts, resubmits>>
          ELSE LET ev == endVoting(players, round, rot, coins)
                   ct == clearTimer(fired.timer, fired.scheduled)
                   st == setTimer(ct.timer, ct.scheduled, "finishRound")
               IN /\ players' = ev.players
                  /\ round' = ev.round
                  /\ phase' = "roundResults"
                  /\ timer' = st.timer
                  /\ scheduled' = st.scheduled
                  /\ out' = Out("endVoting", 1, "none")
                  /\ UNCHANGED <<settings, hostId, deck, usedSituations,
                                 situationsPool, pending, starts, resubmits>>

TimerFinishRound(k, seed) ==
    /\ "finishRound" \in scheduled
    /\ LET fired == fireTimer(timer, scheduled, "finishRound")
           ct == clearTimer(fired.timer, fired.scheduled)
       IN IF ~HasRound
          THEN /\ timer' = fired.timer
               /\ scheduled' = fired.scheduled
               /\ out' = Refused
               /\ UNCHANGED <<players, settings, hostId, deck, usedSituations,
                              situationsPool, phase, round, pending, starts, resubmits>>
          ELSE IF finishRoundIsLast(round, settings)
               THEN /\ phase' = "finalResults"
                    /\ round' = <<>>
                    /\ timer' = ct.timer
                    /\ scheduled' = ct.scheduled
                    /\ out' = Out("finishRound", 1, "none")
                    /\ UNCHANGED <<players, settings, hostId, deck, usedSituations,
                                   situationsPool, pending, starts, resubmits>>
               ELSE LET br == beginRound(players, round, situationsPool,
                                         usedSituations, settings.theme, k, seed)
                        st == setTimer(ct.timer, ct.scheduled, "endSelection")
                    IN /\ players' = br.players
                       /\ round' = br.round
                       /\ situationsPool' = br.pool
                       /\ usedSituations' = br.used
                       /\ phase' = "selection"
                       /\ timer' = st.timer
                       /\ scheduled' = st.scheduled
                       /\ resubmits' = 0
                       /\ out' = Out("finishRound", 2, "none")
                       /\ UNCHANGED <<settings, hostId, deck, pending, starts>>

(***************************************************************************)
(* The inputs explored.                                                    *)
(***************************************************************************)
Sockets == 1..MaxConnected

\* joinLobby while a game is played: a new player with or without the spectator
\* request.
JoinInputs == {<<TheLobby, NoPlayer, sp>> : sp \in BOOLEAN}

\* The callers of an operation: every player of the lobby, a player the
\* lobby does not hold, and a player of a lobby the registry does not hold.
Callers ==
    {<<TheLobby, pid>> : pid \in 0..Len(players)} \cup {<<UnknownLobby, 1>>}

\* The card ids a player of the lobby sends: the first cards of any hand, or no
\* card of the game.
HandCards(p) == {players[p].hand[i] : i \in 1..Min(MaxRandom, Len(players[p].hand))}

\* A caller submitMeme does not find sends a card of its own hand if it has one:
\* the card is not read before the caller is refused.
MemeInputs(c) ==
    IF c[1] = TheLobby /\ Known(players, c[2])
    THEN {NoCard} \cup UNION {HandCards(p) : p \in 1..Len(players)}
    ELSE IF Known(players, c[2]) /\ HandCards(c[2]) # {} THEN HandCards(c[2])
         ELSE {NoCard}

\* The settings updateSettings is called with: the host sends every input, any
\* other caller one of them, which is not read before the caller is refused.
SettingsInputsOf(c) ==
    IF c[1] = TheLobby /\ c[2] = hostId THEN SettingsInputs
    ELSE {s \in SettingsInputs : sanitizeSettings(s) # settings}

\* The rankings a client sends during a voting: every list of player ids shorter
\* than MaxJoined.  In the other phases, and from an unknown caller: the empty
\* list and the list of the round's other submitters.
RankingInputs(c) ==
    IF \/ phase # "voting" \/ c[1] # TheLobby \/ ~Known(players, c[2])
    THEN {<<>>} \cup
         (IF HasRound
          THEN {SelectSeq(SubmissionKeys(round[1].submissions), LAMBDA id : id # c[2])}
          ELSE {})
    ELSE UNION {[1..n -> PlayerIds] : n \in 0..(MaxJoined - 1)}

AutoPicks == [1..MaxJoined -> RandomChoices]
AutoRotations == [1..MaxJoined -> ShuffleChoices]

\* The seeds of the rounds whose voting is scored.
ScoredSeeds == 0..(MaxScoredSeeds - 1)

\* For every seed explored, whether the i-th value of mulberry32(seed) is
\* below 0.5, for the first MaxDraws values.
SeededDraws ==
    [seed \in Seeds \cup ScoredSeeds |->
        [i \in 1..MaxDraws |-> mulberry32(seed, i)[1] < Half \div 2]]

\* A faulty random source that is not seeded: any stream of values.
randomStreamsUnseeded(seed) == [1..MaxDraws -> BOOLEAN]

\* `const random = mulberry32(lobby.round.seed)`: the one stream of the seed;
\* coins[i] tells whether the i-th value is below 0.5, and `random() - 0.5`
\* negative.
randomStreams(seed) == {SeededDraws[seed]}

\* The streams calculateScores draws from in the state: the one of the round's seed.
TieChoices == randomStreams(IF HasRound THEN round[1].seed ELSE 0)

\* The operations on a lobby whose game is played.
Next ==
    \/ \E j \in JoinInputs : joinLobby(j[1], j[2], j[3])
    \/ \E c \in Callers : \E s \in SettingsInputsOf(c) : updateSettings(c[1], c[2], s)
    \/ startGame(TheLobby)
    \/ \E i \in 1..Len(pending), r \in ShuffleChoices, k \in RandomChoices, seed \in Seeds :
          \E got \in FetchOutcomes(pending[i].desiredCards) :
              startGameResume(i, got, r, k, seed)
    \/ RoundInScope /\ \E c \in Callers, r \in ShuffleChoices :
          \E m \in MemeInputs(c) : submitMeme(c[1], c[2], m, r)
    \/ RoundInScope /\ \E c \in Callers, coins \in TieChoices :
          \E rk \in RankingInputs(c) : submitVote(c[1], c[2], rk, coins)
    \/ RoundInScope /\ \E pick \in AutoPicks, r \in ShuffleChoices :
          TimerEndSelection(pick, r)
    \/ RoundInScope /\ \E rot \in AutoRotations, coins \in TieChoices :
          TimerEndVoting(rot, coins)
    \/ RoundInScope /\ \E k \in RandomChoices, seed \in Seeds : TimerFinishRound(k, seed)

Spec == Init /\ [][Next]_vars

(***************************************************************************)
(* The scoring of a voting.  The lobby is taken in voting, with any players, *)
(* any submitters among the active ones and any rankings submitVote accepts, *)
(* and the voting deadline fires.                                            *)
(***************************************************************************)
\* The orders of the members of S.
Orders(S) ==
    {f \in [1..Cardinality(S) -> S] : \A i, j \in DOMAIN f : f[i] = f[j] => i = j}

\* The vote maps submitVote can have built: a ranking of the other submitters
\* for some of the active players that have another submitter to rank.
VoteMaps(active, submitters) ==
    UNION {{votes \in [voted -> UNION {Orders(submitters \ {v}) : v \in voted}] :
               \A v \in voted : votes[v] \in Orders(submitters \ {v})} :
           voted \in SUBSET {v \in active : submitters \ {v} # {}}}

ScoredRotations == [1..MaxScored -> ShuffleChoices]

InitScores ==
    \E n \in 2..MaxScored, seed \in ScoredSeeds :
      \E active \in {a \in SUBSET (1..n) : 1 \in a /\ Cardinality(a) >= MinPlayersToStart} :
        \E submitters \in (SUBSET active) \ {{}} :
          \E votes \in VoteMaps(active, submitters) :
            LET subs == [i \in 1..Cardinality(submitters) |->
                           [pid |-> SetToSeq(submitters)[i],
                            card |-> SetToSeq(submitters)[i]]]
            IN /\ settings = sanitizeSettings([rounds |-> MinRounds, theme |-> "fun",
                                                maxPlayers |-> MaxScored])
               /\ players =
                     [i \in 1..n |->
                        [NewPlayer(i, i \notin active) EXCEPT
                            !.isHost = (i = 1),
                            !.submittedMemeId = IF i \in submitters THEN i ELSE NoCard,
                            !.voteRanking = IF i \in DOMAIN votes THEN votes[i]
                                            ELSE NoRanking]]
               /\ hostId = 1
               /\ deck = <<>>
               /\ usedSituations = {SITUATIONS("fun")[1]}
               /\ situationsPool = SITUATIONS("fun")
               /\ phase = "voting"
               /\ round = <<[NewRound(1, SITUATIONS("fun")[1], seed) EXCEPT
                                !.submissions = subs,
                                !.submissionSlots =
                                    [pid \in submitters |->
                                       CHOOSE i \in 1..Len(subs) : subs[i].pid = pid],
                                !.votes = votes,
                                !.phase = "voting"]>>
               /\ timer = "endVoting"
               /\ scheduled = {"endVoting"}
               /\ pending = <<>>
               /\ starts = 1
               /\ resubmits = 0
               /\ out = Out("endSelection", 1, "none")

NextScores ==
    \E rot \in ScoredRotations, coins \in TieChoices : TimerEndVoting(rot, coins)

SpecScores == InitScores /\ [][NextScores]_vars

(***************************************************************************)
(* A game played to its end by the deadlines alone: the players join in the *)
(* lobby phase, the host starts the game once and may change the settings   *)
(* at any time, and nobody submits or votes.                                *)
(***************************************************************************)
\* The settings the host sends: the shortest game and one round more.
RoundsInputs ==
    { [rounds |-> MinRounds, theme |-> "fun", maxPlayers |-> MaxJoined],
      [rounds |-> MinRounds + 1, theme |-> "fun", maxPlayers |-> MaxJoined] }

InitRounds ==
    \E s \in RoundsInputs :
        /\ settings = sanitizeSettings(s)
        /\ players = <<[NewPlayer(1, FALSE) EXCEPT !.isHost = TRUE]>>
        /\ hostId = 1
        /\ deck = <<>>
        /\ usedSituations = {}
        /\ situationsPool = SITUATIONS(sanitizeSettings(s).theme)
        /\ phase = "lobby"
        /\ round = <<>>
        /\ timer = "none"
        /\ scheduled = {}
        /\ pending = <<>>
        /\ starts = 0
        /\ resubmits = 0
        /\ out = Out("create", 0, "none")

DeadlineEndSelection == \E pick \in AutoPicks, r \in ShuffleChoices : TimerEndSelection(pick, r)
DeadlineEndVoting == \E rot \in AutoRotations, coins \in TieChoices : TimerEndVoting(rot, coins)
DeadlineFinishRound == \E k \in RandomChoices, seed \in Seeds : TimerFinishRound(k, seed)

NextRounds ==
    \/ phase = "lobby" /\ \E sp \in BOOLEAN : joinLobby(TheLobby, NoPlayer, sp)
    \/ \E s \in RoundsInputs : updateSettings(TheLobby, hostId, s)
    \/ phase = "lobby" /\ startGame(TheLobby)
    \/ \E i \in 1..Len(pending), r \in ShuffleChoices, k \in RandomChoices, seed \in Seeds :
          \E got \in FetchOutcomes(pending[i].desiredCards) :
              startGameResume(i, got, r, k, seed)
    \/ DeadlineEndSelection
    \/ DeadlineEndVoting
    \/ DeadlineFinishRound

SpecRounds == InitRounds /\ [][NextRounds]_vars

\* The deadlines setTimeout has scheduled fire in the end.
SpecRoundsFair ==
    /\ InitRounds /\ [][NextRounds]_vars
    /\ WF_vars(DeadlineEndSelection)
    /\ WF_vars(DeadlineEndVoting)
    /\ WF_vars(DeadlineFinishRound)

(***************************************************************************)
(* The lobby and its connections: players join, rejoin, connect and         *)
(* disconnect in every phase, any player asks for the start of the first    *)
(* game, and its first round is played by the deadlines alone.              *)
(***************************************************************************)
\* socket.on('game:start') of the server: the socket's player is looked up for
\* its lobby only, and startGame(ref.lobbyId) is called whoever asks.
gameStart(pid) ==
    IF ~Known(players, pid) \/ ~players[pid].connected
    THEN /\ out' = Refused
         /\ LobbyUnchanged
    ELSE startGame(TheLobby)

\* joinLobby: a new player, or a player already in the lobby, with or without the
\* spectator request, and a lobby the registry does not hold.
LobbyJoinInputs ==
    {<<TheLobby, pid, sp>> : pid \in 0..Len(players), sp \in BOOLEAN}
        \cup {<<UnknownLobby, NoPlayer, FALSE>>}

NextLobby ==
    \/ \E j \in LobbyJoinInputs : joinLobby(j[1], j[2], j[3])
    \/ \E pid \in 1..Len(players), s \in Sockets : markPlayerConnected(TheLobby, pid, s)
    \/ \E s \in Sockets : markPlayerDisconnected(s)
    \/ \E c \in Callers : \E s \in SettingsInputsOf(c) : updateSettings(c[1], c[2], s)
    \/ phase = "lobby" /\ \E pid \in 1..Len(players) : gameStart(pid)
    \/ \E i \in 1..Len(pending), r \in ShuffleChoices, k \in RandomChoices, seed \in Seeds :
          \E got \in FetchOutcomes(pending[i].desiredCards) :
              startGameResume(i, got, r, k, seed)
    \/ RoundInScope /\ DeadlineEndSelection
    \/ RoundInScope /\ DeadlineEndVoting
    \/ RoundInScope /\ DeadlineFinishRound

SpecLobby == Init /\ [][NextLobby]_vars

(***************************************************************************)
(* The settings: a lobby is created by POST /api/lobbies with any settings, *)
(* players join in the lobby phase, and every caller sends updateSettings.  *)
(***************************************************************************)
\* The numbers a client sends for a setting with the limits lo and hi: below
\* zero, below the lower limit, the limits, between them and above.
ValuesAround(lo, hi) ==
    {0 - MaxExcess, lo - MaxExcess, lo, lo + MaxExcess, hi, hi + MaxExcess}

\* A theme that is no key of SITUATIONS.
UnknownTheme == "custom"

WideSettings ==
    [rounds : ValuesAround(MinRounds, MaxRounds),
     theme : Themes \cup {UnknownTheme},
     maxPlayers : ValuesAround(MinMaxPlayers, MaxMaxPlayers)]

\* The settings a caller sends: the host every one, any other caller two that
\* differ from each other in the theme; they are not read before the caller is
\* refused.
WideSettingsOf(c) ==
    IF c[1] = TheLobby /\ c[2] = hostId THEN WideSettings
    ELSE {s \in WideSettings : /\ s.rounds = MinRounds + MaxExcess
                               /\ s.maxPlayers = MaxMaxPlayers
                               /\ s.theme \in {"university", UnknownTheme}}

InitSettings ==
    \E s \in WideSettings :
        /\ settings = sanitizeSettings(indexSanitizeSettings(s))
        /\ players = <<[NewPlayer(1, FALSE) EXCEPT !.isHost = TRUE]>>
        /\ hostId = 1
        /\ deck = <<>>
        /\ usedSituations = {}
        /\ situationsPool = SITUATIONS(sanitizeSettings(indexSanitizeSettings(s)).theme)
        /\ phase = "lobby"
        /\ round = <<>>
        /\ timer = "none"
        /\ scheduled = {}
        /\ pending = <<>>
        /\ starts = 0
        /\ resubmits = 0
        /\ out = Out("create", 0, "none")

NextSettings ==
    \/ \E sp \in BOOLEAN : joinLobby(TheLobby, NoPlayer, sp)
    \/ \E c \in Callers : \E s \in WideSettingsOf(c) : updateSettings(c[1], c[2], s)

SpecSettings == InitSettings /\ [][NextSettings]_vars

(***************************************************************************)
(* A game played to its end by the deadlines alone, with every round's seed *)
(* drawn from several values.                                               *)
(***************************************************************************)
NextSeeds ==
    \/ phase = "lobby" /\ \E sp \in BOOLEAN : joinLobby(TheLobby, NoPlayer, sp)
    \/ phase = "lobby" /\ startGame(TheLobby)
    \/ \E i \in 1..Len(pending), r \in ShuffleChoices, k \in RandomChoices,
          seed \in ScoredSeeds :
          \E got \in FetchOutcomes(pending[i].desiredCards) :
              startGameResume(i, got, r, k, seed)
    \/ DeadlineEndSelection
    \/ DeadlineEndVoting
    \/ \E k \in RandomChoices, seed \in ScoredSeeds : TimerFinishRound(k, seed)

SpecSeeds == InitRounds /\ [][NextSeeds]_vars

(***************************************************************************)
(* The first round of a game with the selection ended by submissions or by  *)
(* its deadline, the auto-submission picking any of the first cards.        *)
(***************************************************************************)
HandPicks == [1..MaxJoined -> 1..MaxPicked]

NextHands ==
    \/ phase = "lobby" /\ \E sp \in BOOLEAN : joinLobby(TheLobby, NoPlayer, sp)
    \/ phase = "lobby" /\ startGame(TheLobby)
    \/ \E i \in 1..Len(pending), r \in ShuffleChoices, k \in RandomChoices, seed \in Seeds :
          \E got \in FetchOutcomes(pending[i].desiredCards) :
              startGameResume(i, got, r, k, seed)
    \/ RoundInScope /\ \E pid \in 1..Len(players), r \in ShuffleChoices :
          \E m \in HandCards(pid) : submitMeme(TheLobby, pid, m, r)
    \/ RoundInScope /\ \E pick \in HandPicks, r \in ShuffleChoices :
          TimerEndSelection(pick, r)
    \/ RoundInScope /\ DeadlineEndVoting
    \/ RoundInScope /\ DeadlineFinishRound

SpecHands == Init /\ [][NextHands]_vars

(***************************************************************************)
(* Games played to their end by the deadlines alone, and started again at   *)
(* any time.                                                                *)
(***************************************************************************)
NextDeadlines ==
    \/ NextRounds
    \/ startGame(TheLobby)

SpecDeadlines == InitRounds /\ [][NextDeadlines]_vars

(***************************************************************************)
(* The prompts of games played by the deadlines alone: the host changes the *)
(* theme and the number of rounds at any time, the game outlasts the        *)
(* smallest pool, and it is started again between two rounds or at its end. *)
(***************************************************************************)
\* The settings the host sends: a game of one round more than the '18+' pool
\* has prompts, and the shortest game of the 'fun' theme.
PromptInputs ==
    { [rounds |-> MatureCount + 1, theme |-> "18+", maxPlayers |-> MaxJoined],
      [rounds |-> MinRounds, theme |-> "fun", maxPlayers |-> MaxJoined] }

PromptChoices == 1..MaxPrompt

NextPrompts ==
    \/ Len(players) < MinPlayersToStart /\ joinLobby(TheLobby, NoPlayer, FALSE)
    \/ \E s \in PromptInputs : updateSettings(TheLobby, hostId, s)
    \/ phase \in {"lobby", "results", "finalResults"} /\ startGame(TheLobby)
    \/ \E i \in 1..Len(pending), k \in PromptChoices :
          \E got \in FetchOutcomes(pending[i].desiredCards) :
              startGameResume(i, got, 1, k, 0)
    \/ DeadlineEndSelection
    \/ DeadlineEndVoting
    \/ \E k \in PromptChoices : TimerFinishRound(k, 0)

SpecPrompts == InitRounds /\ [][NextPrompts]_vars

(***************************************************************************)
(* The projection of the lobby a viewer is sent.                            *)
(***************************************************************************)
\* The slot shown for a submission that has none yet: '?'.
NoSlot == 0

\* A faulty buildSubmissionView that filters nothing.
buildSubmissionViewUnfiltered(rnd, ph, viewerId) ==
    IF rnd = <<>> THEN <<>>
    ELSE [i \in 1..Len(rnd[1].submissions) |->
            [playerId |-> rnd[1].submissions[i].pid,
             slot |-> IF rnd[1].submissions[i].pid \in DOMAIN rnd[1].submissionSlots
                      THEN rnd[1].submissionSlots[rnd[1].submissions[i].pid]
                      ELSE NoSlot,
             meme |-> rnd[1].submissions[i].card]]

\* buildSubmissionView: the entries of round.submissions, without the viewer's
\* own during a voting, each with the submitter's id, its slot and its card.
buildSubmissionView(rnd, ph, viewerId) ==
    IF rnd = <<>> THEN <<>>
    ELSE LET visible == SelectSeq(rnd[1].submissions,
                                  LAMBDA e : ph # "voting" \/ e.pid # viewerId)
         IN [i \in 1..Len(visible) |->
               [playerId |-> visible[i].pid,
                slot |-> IF visible[i].pid \in DOMAIN rnd[1].submissionSlots
                         THEN rnd[1].submissionSlots[visible[i].pid]
                         ELSE NoSlot,
                meme |-> visible[i].card]]

\* getLobbyStateForPlayer for a player of the lobby: the public player list,
\* the viewer's own block and the round's submissions.
getLobbyStateForPlayer(viewerId) ==
    [players |-> [i \in 1..Len(players) |->
                    [id |-> players[i].id,
                     isHost |-> players[i].id = hostId,
                     connected |-> players[i].connected,
                     spectator |-> players[i].spectator,
                     score |-> players[i].score,
                     submitted |-> players[i].submittedMemeId # NoCard,
                     voted |-> players[i].voteRanking # NoRanking]],
     hostId |-> hostId,
     phase |-> phase,
     settings |-> settings,
     you |-> [id |-> players[viewerId].id,
              spectator |-> players[viewerId].spectator,
              hand |-> players[viewerId].hand,
              submittedMemeId |-> players[viewerId].submittedMemeId],
     submissions |-> buildSubmissionView(round, phase, viewerId)]

(***************************************************************************)
(* The properties.                                                         *)
(***************************************************************************)
\* The lobby fields, without the bookkeeping of the exploration and without out.
lobbyFields == <<players, settings, hostId, deck, usedSituations, situationsPool,
                 phase, round, timer, scheduled, pending>>

ActiveIds == {i \in 1..Len(players) : ~players[i].spectator}

SubmitterIds == IF HasRound
                THEN {round[1].submissions[i].pid : i \in 1..Len(round[1].submissions)}
                ELSE {}

\* ranking lists every id of ids once, and nothing else.
IsPermutationOf(ranking, ids) ==
    /\ Len(ranking) = Cardinality(ids)
    /\ {ranking[i] : i \in 1..Len(ranking)} = ids

\* C1: every change of the lobby's phase is one of lobby->selection,
\* selection->voting, voting->roundResults, roundResults->selection,
\* roundResults->finalResults and finalResults->selection.
C1_PhaseEdges ==
    [][phase' # phase =>
          <<phase, phase'>> \in
              { <<"lobby", "selection">>, <<"selection", "voting">>,
                <<"voting", "roundResults">>, <<"roundResults", "selection">>,
                <<"roundResults", "finalResults">>, <<"finalResults", "selection">> }]_vars

\* C2: a startGame call made while another call of the lobby awaits the provider
\* returns false and leaves the players, the deck, the round, the phase and the
\* calls in flight as they were.
C2_SecondStartRejected ==
    [][(startGame(TheLobby) /\ Len(pending) > 0) =>
          /\ out'.result = "false"
          /\ UNCHANGED <<players, deck, round, phase, pending>>]_vars

\* C3: when startGame returns true the lobby is in selection with a round
\* numbered 1, every active player has score 0, and every active player holds
\* rounds+2 cards if the provider returned at least the cards asked for.
C3_StartedGame ==
    [][\A i \in 1..Len(pending), r \in ShuffleChoices, k \in RandomChoices, seed \in Seeds :
          \A got \in FetchOutcomes(pending[i].desiredCards) :
              startGameResume(i, got, r, k, seed) =>
                  /\ out'.result = "true"
                  /\ phase' = "selection"
                  /\ round' # <<>>
                  /\ round'[1].roundNumber = 1
                  /\ \A j \in 1..Len(players') :
                        ~players'[j].spectator =>
                            /\ players'[j].score = 0
                            /\ got >= pending[i].desiredCards =>
                                  Len(players'[j].hand) = settings'.rounds + 2]_vars

\* C4: startGame on a lobby with fewer than 2 active players returns false,
\* emits no notification and changes no field of the lobby.
C4_StartRefused ==
    [][(startGame(TheLobby) /\ Cardinality(ActiveIds) < 2) =>
          /\ out'.result = "false"
          /\ out'.notified = 0
          /\ UNCHANGED lobbyFields]_vars

\* C4: startGame has returned false in a lobby whose second player is a spectator.
C4_Witness ==
    /\ out.result = "false"
    /\ Len(players) >= 2
    /\ Cardinality(ActiveIds) < 2

\* C5: in selection, a submitMeme of a player who has a submission recorded for
\* the round leaves the submissions and the hands as they were.
C5_ResubmissionIgnored ==
    [][\A c \in Callers, r \in ShuffleChoices :
        \A m \in MemeInputs(c) :
          (/\ out'.op = "submitMeme"
           /\ c[1] = TheLobby /\ Known(players, c[2])
           /\ phase = "selection" /\ HasRound
           /\ c[2] \in SubmitterIds
           /\ submitMeme(c[1], c[2], m, r))
          => UNCHANGED <<players, round>>]_vars

\* C6: submitMeme emits no notification and changes no field of the lobby when
\* the lobby or the player is unknown, the player is a spectator, the phase is
\* not selection, or the card is not in the player's hand.
C6_SubmitRefused ==
    [][\A c \in Callers, r \in ShuffleChoices :
        \A m \in MemeInputs(c) :
          (/\ out'.op = "submitMeme"
           /\ \/ c[1] # TheLobby
              \/ ~Known(players, c[2])
              \/ players[c[2]].spectator
              \/ phase # "selection"
              \/ ~InHand(players[c[2]].hand, m)
           /\ submitMeme(c[1], c[2], m, r))
          => (out'.notified = 0 /\ UNCHANGED lobbyFields)]_vars

\* C6: a submitMeme was refused during the voting of a round, where the players
\* hold cards.
C6_Witness ==
    /\ out = Out("submitMeme", 0, "none")
    /\ phase = "voting"
    /\ \E i \in ActiveIds : Len(players[i].hand) > 0

\* C7, as stated: when selection ends every active player has a submission
\* recorded, and each one who had none before has one card fewer in hand.
C7_EveryActiveSubmits ==
    [][(phase = "selection" /\ phase' = "voting") =>
          \A i \in ActiveIds :
              /\ i \in SubmitterIds'
              /\ i \notin SubmitterIds =>
                    Len(players'[i].hand) = Len(players[i].hand) - 1]_vars

\* C7, amended: when selection ends an active player has a submission recorded
\* exactly if that player had submitted or held a card; each one who had not
\* submitted and held a card has one card fewer in hand, the card recorded; an
\* active player with an empty hand and no submission is left without one.
C7_ActiveWithCardsSubmit ==
    [][(phase = "selection" /\ phase' = "voting") =>
          \A i \in ActiveIds :
              /\ i \in SubmitterIds' <=>
                    (i \in SubmitterIds \/ Len(players[i].hand) > 0)
              /\ (i \notin SubmitterIds /\ Len(players[i].hand) > 0) =>
                    /\ Len(players'[i].hand) = Len(players[i].hand) - 1
                    /\ InHand(players[i].hand, players'[i].submittedMemeId)
                    /\ ~InHand(players'[i].hand, players'[i].submittedMemeId)]_vars

\* C7: the selection timer has ended a selection in which one active player got
\* an automatic submission and another, holding no card, got none.
C7_Witness ==
    /\ out.op = "endSelection"
    /\ phase = "voting"
    /\ \E i \in ActiveIds : i \notin SubmitterIds /\ Len(players[i].hand) = 0
    /\ \E i \in ActiveIds : i \in SubmitterIds

\* C8: a submitMeme after which every active player has a submission recorded
\* leaves the lobby in voting with the voting timer armed in place of the
\* selection timer.
C8_LastSubmissionAdvances ==
    [][(/\ out'.op = "submitMeme"
        /\ out'.notified > 0
        /\ HasRound'
        /\ ActiveIds' \subseteq SubmitterIds')
       => (phase' = "voting" /\ timer' = "endVoting")]_vars

\* C8: a submitMeme has moved the lobby to voting.
C8_Witness ==
    /\ out.op = "submitMeme"
    /\ phase = "voting"
    /\ timer = "endVoting"
    /\ ActiveIds \subseteq SubmitterIds

\* C9: every ranking in the round's vote map is a permutation of the round's
\* submitters other than the voter, and no step that changes the round or the
\* players is a submitVote whose ranking is not such a permutation.
C9_RankingsArePermutations ==
    /\ [](HasRound =>
            \A v \in DOMAIN round[1].votes :
                IsPermutationOf(round[1].votes[v], SubmitterIds \ {v}))
    /\ [][(round' # round \/ players' # players) =>
            \A c \in Callers :
                \A rk \in RankingInputs(c) :
                    ~IsPermutationOf(rk, SubmitterIds \ {c[2]}) =>
                        \A coins \in TieChoices : ~submitVote(c[1], c[2], rk, coins)]_vars

\* C9: the voting timer has ended a voting with three submitters, each of whom
\* has a ranking of the two others in the vote map, not all of them in the
\* order of the ids.
C9_Witness ==
    /\ out.op = "endVoting"
    /\ phase = "roundResults"
    /\ Cardinality(SubmitterIds) = 3
    /\ \A v \in SubmitterIds : v \in DOMAIN round[1].votes
    /\ \E v \in SubmitterIds :
          round[1].votes[v] # SelectSeq(<<1, 2, 3>>, LAMBDA id : id # v)

\* C10: no state has the lobby in voting with a vote recorded for every active
\* player, and the submitVote that records the last missing vote leaves the
\* lobby in roundResults.
C10_NoCompleteVoting ==
    /\ [](~(/\ phase = "voting"
            /\ HasRound
            /\ ActiveIds \subseteq DOMAIN round[1].votes))
    /\ [][(/\ out'.op = "submitVote"
           /\ HasRound'
           /\ ActiveIds' \subseteq DOMAIN round'[1].votes)
          => (phase' = "roundResults" /\ timer' = "finishRound")]_vars

\* C10: a submitVote has recorded the last missing vote of three active players.
C10_Witness ==
    /\ out.op = "submitVote"
    /\ phase = "roundResults"
    /\ Cardinality(ActiveIds) = 3
    /\ ActiveIds \subseteq DOMAIN round[1].votes

(***************************************************************************)
(* The scoring.                                                            *)
(***************************************************************************)
\* The round's voting has been scored.
Scored == HasRound /\ phase = "roundResults"

ActiveSubmitterIds == SubmitterIds \cap ActiveIds

\* The points of pid on the round's leaderboard.
LeaderboardPoints(pid) ==
    SumSeq([i \in 1..Len(round[1].leaderboard) |->
              IF round[1].leaderboard[i].playerId = pid
              THEN round[1].leaderboard[i].points ELSE 0])

\* The sum over the recorded rankings of maxPoints - i at each 0-based
\* position i that names pid.
PositionalPoints(pid, maxPoints) ==
    LET voters == SetToSeq(DOMAIN round[1].votes)
    IN SumSeq([j \in 1..Len(voters) |->
                 SumSeq([i \in 1..Len(round[1].votes[voters[j]]) |->
                           IF round[1].votes[voters[j]][i] = pid
                           THEN maxPoints - (i - 1) ELSE 0])])

\* C11: once a voting is scored, the leaderboard points of every active player
\* are the sum, over the recorded rankings, of N-1-i for each 0-based position i
\* at which the ranking names the player, N being the number of active
\* submitters of the round.
C11_PointsByActiveSubmitters ==
    Scored =>
        \A pid \in ActiveIds :
            LeaderboardPoints(pid) =
                PositionalPoints(pid, Cardinality(ActiveSubmitterIds) - 1)

\* C12: once a voting is scored, every recorded ranking that is not empty gave 0
\* points to the player it names last.
C12_LastPlaceGetsNothing ==
    Scored =>
        \A v \in DOMAIN round[1].votes :
            LET ranking == round[1].votes[v]
            IN Len(ranking) > 0 =>
                  RankingPoints(ranking, ranking[Len(ranking)],
                                optionsPerVote(players)) = 0

\* The players the recorded rankings name, and those they name last only.
RankedIds == UNION {{round[1].votes[v][i] : i \in 1..Len(round[1].votes[v])} :
                       v \in DOMAIN round[1].votes}

RankedLastOnly(pid) ==
    \A v \in DOMAIN round[1].votes :
        \A i \in 1..Len(round[1].votes[v]) :
            round[1].votes[v][i] = pid => i = Len(round[1].votes[v])

\* C12 (amended): once a voting is scored, every recorded ranking of L players
\* gave P - L points to the player it names last, P being the number of active
\* players: at least 1, and exactly 1 when the ranking lists all the active
\* players but the voter.  A player whom every ranking that names them names
\* last has, on the leaderboard, the sum of these points.
C12_LastPlacePoints ==
    Scored =>
        LET P == Cardinality(ActiveIds)
            voters == SetToSeq(DOMAIN round[1].votes)
        IN /\ \A v \in DOMAIN round[1].votes :
                 LET ranking == round[1].votes[v]
                     last == RankingPoints(ranking, ranking[Len(ranking)],
                                           optionsPerVote(players))
                 IN Len(ranking) > 0 =>
                       /\ last = P - Len(ranking)
                       /\ last >= 1
                       /\ Len(ranking) = P - 1 => last = 1
           /\ \A pid \in RankedIds \cap ActiveIds :
                 RankedLastOnly(pid) =>
                     LeaderboardPoints(pid) =
                         SumSeq([j \in 1..Len(voters) |->
                                   IF \E i \in 1..Len(round[1].votes[voters[j]]) :
                                         round[1].votes[voters[j]][i] = pid
                                   THEN P - Len(round[1].votes[voters[j]])
                                   ELSE 0])

\* C12: a voting of three active players who all submitted is scored, and one of
\* them, named last by both others, has 2 points on the leaderboard.
C12_Witness ==
    /\ Scored
    /\ Cardinality(ActiveIds) = 3
    /\ ActiveSubmitterIds = ActiveIds
    /\ \E pid \in ActiveIds :
          /\ RankedLastOnly(pid)
          /\ \A v \in ActiveIds \ {pid} :
                Len(round[1].votes[v]) = 2 /\ round[1].votes[v][2] = pid
          /\ LeaderboardPoints(pid) = 2

\* C13: once a voting is scored, the points of the leaderboard add up to
\* V * N * (N-1) / 2, V being the number of voters with a recorded ranking and
\* N the number of active submitters.
C13_TotalPoints ==
    Scored =>
        LET N == Cardinality(ActiveSubmitterIds)
            V == Cardinality(DOMAIN round[1].votes)
        IN SumSeq([i \in 1..Len(round[1].leaderboard) |->
                     round[1].leaderboard[i].points])
               = (V * N * (N - 1)) \div 2

\* a goes before b by the keys of the leaderboard, or equals it on all three.
KeysInOrder(a, b) ==
    \/ a.points > b.points
    \/ /\ a.points = b.points
       /\ \/ a.firstPlaceVotes > b.firstPlaceVotes
          \/ /\ a.firstPlaceVotes = b.firstPlaceVotes
             /\ a.secondPlaceVotes >= b.secondPlaceVotes

\* C14: once a voting is scored, the leaderboard lists every active player once,
\* by descending points, then descending first-place count, then descending
\* second-place count, whatever the stream of random().
C14_LeaderboardOrdered ==
    Scored =>
        LET lb == round[1].leaderboard
        IN /\ Len(lb) = Cardinality(ActiveIds)
           /\ {lb[i].playerId : i \in 1..Len(lb)} = ActiveIds
           /\ \A i \in 1..(Len(lb) - 1) : KeysInOrder(lb[i], lb[i + 1])

\* C14: a scored leaderboard holds two neighbours with the same points, told
\* apart by the first-place count and placed against the order of the players,
\* and two neighbours equal on the three keys.
C14_Witness ==
    /\ Scored
    /\ LET lb == round[1].leaderboard
       IN /\ \E i \in 1..(Len(lb) - 1) :
                /\ lb[i].points = lb[i + 1].points
                /\ lb[i].firstPlaceVotes > lb[i + 1].firstPlaceVotes
                /\ lb[i].playerId > lb[i + 1].playerId
          /\ \E i \in 1..(Len(lb) - 1) :
                /\ lb[i].points = lb[i + 1].points
                /\ lb[i].firstPlaceVotes = lb[i + 1].firstPlaceVotes
                /\ lb[i].secondPlaceVotes = lb[i + 1].secondPlaceVotes

\* C15: the score of every active player is 0 when startGame returns true, grows
\* by the player's points on the round's leaderboard on the step that scores a
\* voting, and is changed by no other step.
C15_ScoreIsSumOfRoundPoints ==
    [][/\ out'.result = "true" =>
            \A i \in ActiveIds' : players'[i].score = 0
       /\ (phase = "voting" /\ phase' = "roundResults") =>
            \A i \in ActiveIds :
                players'[i].score = players[i].score + LeaderboardPoints(i)'
       /\ (out'.result # "true" /\ ~(phase = "voting" /\ phase' = "roundResults")) =>
            /\ \A i \in ActiveIds : players'[i].score = players[i].score
            /\ \A i \in ActiveIds' \ ActiveIds : players'[i].score = 0]_vars

(***************************************************************************)
(* The rounds of a game.                                                   *)
(***************************************************************************)
\* C16: in every state with an active round, the round's number is at most the
\* round count of the settings.
C16_RoundNumberWithinRounds ==
    HasRound => round[1].roundNumber <= settings.rounds

\* C17: the results deadline of round k begins round k+1 in selection, with the
\* selection deadline armed, when k is below the round count; otherwise it puts
\* the lobby in finalResults with no round and no deadline.  A lobby in
\* finalResults that is not started again has no round and no deadline, and
\* stays so.
C17_ResultsDeadline ==
    /\ [][out'.op = "finishRound" =>
             /\ HasRound /\ phase = "roundResults"
             /\ IF round[1].roundNumber < settings.rounds
                THEN /\ phase' = "selection"
                     /\ HasRound'
                     /\ round'[1].roundNumber = round[1].roundNumber + 1
                     /\ round'[1].phase = "selection"
                     /\ timer' = "endSelection"
                     /\ scheduled' = {"endSelection"}
                ELSE /\ phase' = "finalResults"
                     /\ round' = <<>>
                     /\ timer' = "none"
                     /\ scheduled' = {}]_vars
    /\ [](phase = "finalResults" => (~HasRound /\ timer = "none" /\ scheduled = {}))
    /\ [][phase = "finalResults" =>
             (phase' = "finalResults" /\ ~HasRound' /\ scheduled' = {}
              /\ players' = players)]_vars

\* C17: the results deadline of round 6 of a game of 6 rounds has fired.
C17_Witness ==
    /\ out.op = "finishRound"
    /\ phase = "finalResults"
    /\ settings.rounds = MinRounds + 1
    /\ \A i \in ActiveIds : Len(players[i].hand) = ExtraCards
    /\ scheduled = {}

\* C18: a lobby that has a round reaches finalResults, if the deadlines armed
\* fire in the end and the game is not started again, whether or not anybody
\* submits or votes.
C18_GameEnds == HasRound ~> (phase = "finalResults")

\* C18: three active players, dealt all their cards, have reached finalResults
\* through the deadlines of 5 rounds, each with points from the auto-votes.
C18_Witness ==
    /\ phase = "finalResults"
    /\ settings.rounds = MinRounds
    /\ Cardinality(ActiveIds) = 3
    /\ \A i \in ActiveIds : Len(players[i].hand) = ExtraCards /\ players[i].score > 0

(***************************************************************************)
(* The deadlines and the notifications.                                    *)
(***************************************************************************)
\* The handler of the deadline of a phase.
HandlerOf(ph) ==
    CASE ph = "selection" -> "endSelection"
      [] ph = "voting" -> "endVoting"
      [] ph = "roundResults" -> "finishRound"
      [] OTHER -> "none"

\* C19: the event loop never holds more than one timeout of the lobby, and
\* while the lobby has a round it holds the deadline of the lobby's phase and
\* nothing else; a deadline that acts acts on the phase it was armed for; and
\* a submitMeme or submitVote that completes a phase leaves the deadline of
\* the next phase as the only timeout, the one of the completed phase gone.
C19_OneDeadline ==
    /\ [](/\ Cardinality(scheduled) <= 1
          /\ timer \in scheduled \cup {"none"}
          /\ HasRound => scheduled = {HandlerOf(phase)})
    /\ [][out'.op \in {"endSelection", "endVoting", "finishRound"} =>
             out'.op = HandlerOf(phase)]_vars
    /\ [][(out'.op \in {"submitMeme", "submitVote"} /\ phase' # phase) =>
             (scheduled' = {HandlerOf(phase')} /\ HandlerOf(phase) \notin scheduled')]_vars

\* C19: a submitVote has completed the voting of three active players before
\* its deadline, and the results deadline is the only timeout left.
C19_Witness ==
    /\ out.op = "submitVote"
    /\ phase = "roundResults"
    /\ Cardinality(ActiveIds) = 3
    /\ timer = "finishRound"
    /\ scheduled = {"finishRound"}

\* C20: in every state that was notified to the observers, the lobby is in
\* selection, voting or roundResults exactly if it has a round, and then the
\* round's phase is the lobby's phase.
C20_NotifiedPhaseHasRound ==
    out.notified > 0 =>
        /\ (phase \in {"selection", "voting", "roundResults"}) <=> HasRound
        /\ HasRound => round[1].phase = phase

(***************************************************************************)
(* C21: every engine operation that mutates the lobby emits exactly one    *)
(* state-change notification: a step that changes a lobby field notifies   *)
(* once.  (The part of startGame before its await is one half of the       *)
(* successful start, which notifies when it resumes.)                      *)
(***************************************************************************)
C21_OneNotificationPerMutation ==
    [][(/\ lobbyFields' # lobbyFields
        /\ ~(out'.op = "startGame" /\ out'.result = "none"))
       => out'.notified = 1]_vars

(***************************************************************************)
(* C22: joinLobby with the identifier of a player already in the lobby      *)
(* returns that player's record and changes nothing: the players (their     *)
(* number, scores, hands, spectator flags, host flags) and every other      *)
(* lobby field are as before, whatever the phase and the spectator request. *)
(***************************************************************************)
C22_RejoinChangesNothing ==
    [][\A pid \in 1..Len(players), sp \in BOOLEAN :
          joinLobby(TheLobby, pid, sp)
          => /\ out'.player = pid
             /\ out'.result = "none"
             /\ out'.notified = 0
             /\ UNCHANGED lobbyFields]_vars

\* A player that holds cards and is not the last one joined has rejoined during
\* a voting.
C22_Witness ==
    /\ out.op = "joinLobby"
    /\ out.player \in 1..(Len(players) - 1)
    /\ phase = "voting"
    /\ Len(players[out.player].hand) > 0

(***************************************************************************)
(* C23: a join by a new player while the lobby is past the lobby phase and  *)
(* has settings.maxPlayers active players or more succeeds: the player is   *)
(* created as a spectator and returned, with the note that the lobby is     *)
(* full unless the spectator role was requested; the records of the players *)
(* already there, the round and the host are unchanged.                     *)
(***************************************************************************)
C23_ForcedSpectator ==
    [][\A sp \in BOOLEAN :
          (/\ phase # "lobby"
           /\ Len(Participants(players)) >= settings.maxPlayers
           /\ joinLobby(TheLobby, NoPlayer, sp))
          => /\ Len(players') = Len(players) + 1
             /\ SubSeq(players', 1, Len(players)) = players
             /\ players'[Len(players')].spectator
             /\ out'.player = Len(players')
             /\ out'.result = (IF sp THEN "none" ELSE LobbyIsFull)
             /\ round' = round
             /\ hostId' = hostId]_vars

\* A player was made a spectator of a round in play without having asked for it.
C23_Witness ==
    /\ out.op = "joinLobby"
    /\ out.result = LobbyIsFull
    /\ HasRound
    /\ out.player = Len(players)
    /\ players[out.player].spectator

(***************************************************************************)
(* C24: in every reachable state the lobby has at most settings.maxPlayers  *)
(* active (non-spectator) players.                                          *)
(***************************************************************************)
C24_ActiveWithinMaxPlayers == Len(Participants(players)) <= settings.maxPlayers

(***************************************************************************)
(* C25: in every reachable state exactly one player has isHost set, that    *)
(* player is not a spectator, and lobby.hostId is that player's id.         *)
(***************************************************************************)
HostIds == {i \in 1..Len(players) : players[i].isHost}

C25_OneHost ==
    /\ HostIds = {hostId}
    /\ ~players[hostId].spectator

\* The host has disconnected while another participant is connected and a
\* spectator is in the lobby.
C25_Witness ==
    /\ out.op = "markPlayerDisconnected"
    /\ ~players[hostId].connected
    /\ \E i \in 1..Len(players) : ~players[i].spectator /\ players[i].connected
    /\ \E i \in 1..Len(players) : players[i].spectator

(***************************************************************************)
(* C26: when the host disconnects while another non-spectator player is     *)
(* connected, the host role goes to a connected non-spectator player.       *)
(***************************************************************************)
\* The player markPlayerDisconnected finds for socketId, or NoPlayer.
BoundTo(socketId) ==
    LET bound == SelectSeq(players, LAMBDA p : p.socketId = socketId)
    IN IF Len(bound) = 0 THEN NoPlayer ELSE bound[1].id

C26_HostReassigned ==
    [][\A s \in Sockets :
          (/\ BoundTo(s) = hostId
           /\ \E i \in 1..Len(players) :
                 i # hostId /\ ~players[i].spectator /\ players[i].connected
           /\ markPlayerDisconnected(s))
          => /\ players'[hostId'].connected
             /\ ~players'[hostId'].spectator
             /\ players'[hostId'].isHost]_vars

(***************************************************************************)
(* C27: after createLobby and after every accepted updateSettings,          *)
(* settings.rounds is in [5, 20] and settings.maxPlayers in [2, 7],         *)
(* whatever integers were sent.                                             *)
(***************************************************************************)
C27_SettingsInRange ==
    /\ settings.rounds \in MinRounds..MaxRounds
    /\ settings.maxPlayers \in MinMaxPlayers..MaxMaxPlayers

\* An accepted update has left the most rounds and the fewest players allowed.
C27_Witness ==
    /\ out.op = "updateSettings"
    /\ out.notified = 1
    /\ settings.rounds = MaxRounds
    /\ settings.maxPlayers = MinMaxPlayers

(***************************************************************************)
(* C28: an updateSettings of the host with a theme that is not enumerated   *)
(* stores the theme 'fun' with the prompt pool of 'fun', and the engine     *)
(* goes on: the call returns normally.                                      *)
(***************************************************************************)
C28_UnknownThemeBecomesFun ==
    [][\A s \in WideSettings :
          (s.theme \notin Themes /\ updateSettings(TheLobby, hostId, s))
          => /\ settings'.theme = "fun"
             /\ situationsPool' = SITUATIONS("fun")
             /\ out'.result = "none"]_vars

(***************************************************************************)
(* C29: an updateSettings by any caller other than the host leaves the      *)
(* settings and the prompt pool unchanged and emits no notification.        *)
(***************************************************************************)
C29_NonHostUpdateIgnored ==
    [][\A c \in Callers : \A s \in WideSettingsOf(c) :
          (c # <<TheLobby, hostId>> /\ updateSettings(c[1], c[2], s))
          => /\ UNCHANGED <<settings, situationsPool>>
             /\ out'.notified = 0]_vars

\* An update was refused in a lobby with a player who is not the host, whose
\* settings are not the ones that player sends.
C29_Witness ==
    /\ out = Refused
    /\ Len(players) > 1
    /\ \A c \in Callers : c[2] # hostId =>
          \E s \in WideSettingsOf(c) : sanitizeSettings(s) # settings

(***************************************************************************)
(* C30: a start request issued by a spectator does not start the game: the  *)
(* phase stays as it is and no startGame call is made to await the cards.   *)
(***************************************************************************)
C30_SpectatorCannotStart ==
    [][\A pid \in 1..Len(players) :
          (players[pid].spectator /\ gameStart(pid))
          => UNCHANGED <<phase, pending, round>>]_vars

(***************************************************************************)
(* C31: during selection and voting the projection sent to a viewer never   *)
(* shows another player's identifier together with that player's submitted  *)
(* card: every submission entry a viewer sees is the viewer's own.          *)
(***************************************************************************)
C31_SubmitterNotExposed ==
    phase \in {"selection", "voting"} =>
        \A v \in 1..Len(players) :
            LET view == getLobbyStateForPlayer(v).submissions
            IN \A i \in 1..Len(view) : view[i].playerId = v

(***************************************************************************)
(* C32: during a voting the submissions in the projection of viewer v are   *)
(* the recorded submissions without v's own, and in every phase the only    *)
(* hand in v's projection is v's own hand.                                  *)
(***************************************************************************)
C32_OwnHandOthersSubmissions ==
    \A v \in 1..Len(players) :
        LET proj == getLobbyStateForPlayer(v)
        IN /\ (phase = "voting" /\ HasRound) =>
                 [i \in 1..Len(proj.submissions) |->
                    [pid |-> proj.submissions[i].playerId,
                     card |-> proj.submissions[i].meme]]
                 = SelectSeq(round[1].submissions, LAMBDA e : e.pid # v)
           /\ proj.you.hand = players[v].hand
           /\ \A i \in 1..Len(proj.players) : "hand" \notin DOMAIN proj.players[i]

\* A voting with two submissions or more, one of them by a player who still
\* holds cards, while another player holds different cards.
C32_Witness ==
    /\ phase = "voting"
    /\ HasRound
    /\ Len(round[1].submissions) >= 2
    /\ \E v, w \in 1..Len(players) :
          /\ HasSubmission(round[1].submissions, v)
          /\ Len(players[v].hand) > 0
          /\ players[w].hand # players[v].hand

(***************************************************************************)
(* C33: a round's seed is generated when the round begins, is not changed   *)
(* while the round is active, and differs from the seed of every other      *)
(* round of the lobby: a step that keeps the round keeps its seed, and a    *)
(* step into the next round changes it.                                     *)
(***************************************************************************)
C33_SeedsNeverReused ==
    [][(HasRound /\ HasRound') =>
          IF round'[1].roundNumber = round[1].roundNumber
          THEN round'[1].seed = round[1].seed
          ELSE round'[1].seed # round[1].seed]_vars

C35_SpectatorsStayOut ==
    \A i \in 1..Len(players) :
        players[i].spectator =>
            /\ players[i].score = 0
            /\ players[i].hand = <<>>
            /\ HasRound => /\ ~HasSubmission(round[1].submissions, i)
                           /\ i \notin DOMAIN round[1].votes

\* A round was scored by its deadline with a spectator who was in the lobby
\* when the cards were dealt, and a participant has points.
C35_Witness ==
    /\ phase = "roundResults"
    /\ out.op = "endVoting"
    /\ \E i \in 1..Len(players) : players[i].spectator /\ i < Len(players)
    /\ \E i \in 1..Len(players) : players[i].score > 0
    /\ Len(round[1].submissions) >= 2

(***************************************************************************)
(* C36: the auto-submission for a player with a non-empty hand records a    *)
(* card that is in that player's hand at that moment and removes exactly    *)
(* that one card from the hand; the card is in no other hand and not in the *)
(* deck.                                                                    *)
(***************************************************************************)
\* The card round.submissions holds for pid.
SubmittedBy(subs, pid) == (CHOOSE e \in {subs[i] : i \in 1..Len(subs)} : e.pid = pid).card

C36_AutoSubmissionFromOwnHand ==
    [][\A pick \in HandPicks, r \in ShuffleChoices :
          (HasRound /\ TimerEndSelection(pick, r)) =>
              \A p \in 1..Len(players) :
                  (/\ ~players[p].spectator
                   /\ ~HasSubmission(round[1].submissions, p)
                   /\ Len(players[p].hand) > 0)
                  => /\ HasSubmission(round'[1].submissions, p)
                     /\ players'[p].submittedMemeId = SubmittedBy(round'[1].submissions, p)
                     /\ \E k \in 1..Len(players[p].hand) :
                           /\ players[p].hand[k] = SubmittedBy(round'[1].submissions, p)
                           /\ players'[p].hand = RemoveAt(players[p].hand, k)
                     /\ \A q \in 1..Len(players) :
                           q # p => ~InHand(players[q].hand,
                                            SubmittedBy(round'[1].submissions, p))
                     /\ \A d \in 1..Len(deck) :
                           deck[d] # SubmittedBy(round'[1].submissions, p)]_vars

\* The deadline of a selection has submitted the second card of a hand (the
\* hands are dealt by descending card id): the card's id lies between those of
\* the two cards that are now the first of the hand.
C36_Witness ==
    /\ out.op = "endSelection"
    /\ phase = "voting"
    /\ \E p \in 1..Len(players) :
          /\ HasSubmission(round[1].submissions, p)
          /\ Len(players[p].hand) > 1
          /\ players[p].hand[1] > players[p].submittedMemeId
          /\ players[p].submittedMemeId > players[p].hand[2]

(***************************************************************************)
(* C37: the provider returning cards with distinct ids, no card id is in    *)
(* two players' hands (or twice in one), none is both in a hand and in the  *)
(* round's submissions, and a card that was submitted never returns to a    *)
(* hand during that game: but for the deal of a start, a hand only loses    *)
(* cards.                                                                   *)
(***************************************************************************)
CardsOf(p) == {players[p].hand[k] : k \in 1..Len(players[p].hand)}

SubmittedCards ==
    IF HasRound
    THEN {round[1].submissions[i].card : i \in 1..Len(round[1].submissions)}
    ELSE {}

CardsHeldOnce ==
    /\ \A p \in 1..Len(players) : Cardinality(CardsOf(p)) = Len(players[p].hand)
    /\ \A p, q \in 1..Len(players) : p # q => CardsOf(p) \cap CardsOf(q) = {}
    /\ \A p \in 1..Len(players) : CardsOf(p) \cap SubmittedCards = {}

C37_CardsOwnedExclusively ==
    /\ []CardsHeldOnce
    /\ [][out'.op # "startGame" =>
             \A p \in 1..Len(players) : CardsOf(p)' \subseteq CardsOf(p)]_vars

(***************************************************************************)
(* C38: a deadline is armed in every state in which the lobby has a round,  *)
(* and none is armed while the lobby is in phase lobby or finalResults.     *)
(***************************************************************************)
C38_DeadlineArmedWithRound ==
    /\ HasRound => (timer # "none" /\ timer \in scheduled)
    /\ phase \in {"lobby", "finalResults"} => (timer = "none" /\ scheduled = {})

\* A game that was started again has been played to its final results, and no
\* deadline is left.
C38_Witness ==
    /\ phase = "finalResults"
    /\ starts >= 2
    /\ out.op = "finishRound"
    /\ scheduled = {}

\* A step that begins a round, of the first or of a later one.
RoundBegins ==
    /\ round' # <<>>
    /\ \/ round = <<>>
       \/ round'[1].roundNumber # round[1].roundNumber

UnusedPrompts == {situationsPool[i] : i \in 1..Len(situationsPool)} \ usedSituations

ConnectedIffBound ==
    \A i \in 1..Len(players) : players[i].connected <=> players[i].socketId # 0

C40_LateDisconnectIgnored ==
    /\ []ConnectedIffBound
    /\ [][\A s \in Sockets, i \in 1..Len(players) :
             (/\ players[i].connected
              /\ players[i].socketId # s
              /\ markPlayerDisconnected(s))
             => /\ players'[i].connected
                /\ players'[i].socketId = players[i].socketId]_vars

\* The disconnect of the first socket was processed when no player was bound to
\* it any more, and the host is connected on the second socket.
C40_Witness ==
    /\ out = NobodyBound
    /\ BoundTo(1) = NoPlayer
    /\ players[hostId].connected
    /\ players[hostId].socketId = MaxConnected

====
